---- MODULE Spec2Model ----
(***************************************************************************)
(* A model of chenjiandongx/dockerstats (src/cmd/main.go).                 *)
(*                                                                         *)
(* Spec          : one call of Exporter.List(): the calling goroutine, its *)
(*                 collector goroutine and one worker goroutine per listed *)
(*                 container. The workers call through e.dc and never      *)
(*                 branch on its value, so Watch is left out here.         *)
(* FairSpec      : Spec with the fairness the Go scheduler gives runnable  *)
(*                 goroutines.                                             *)
(* WatchSpec     : the background goroutine Exporter.Watch() beside one    *)
(*                 call of List(), both replacing e.dc.                    *)
(* FairWatchSpec : WatchSpec with Watch scheduled fairly.                  *)
(* SpecCPU       : the pure function Exporter.calcCPUPercent applied to    *)
(*                 bounded snapshots.                                      *)
(* SpecMem       : Exporter.calcMemUsageNoCache applied to bounded memory  *)
(*                 snapshots, uint64 scaled down to UintBits bits.         *)
(* SpecBlk       : Exporter.calcBlockIO applied to bounded lists of        *)
(*                 block-I/O entries.                                      *)
(* SpecLabels    : the loop of Exporter.getLabels applied to bounded       *)
(*                 label mappings.                                         *)
(* SpecStats     : the field derivation of Exporter.getStats applied to a  *)
(*                 set of responses of both OS types.                      *)
(* HandlerSpec   : one request of GET /stats: the handler of cmd/main.go   *)
(*                 around one call of List().                              *)
(*                                                                         *)
(* Calls into the Docker client library are modelled by the results the    *)
(* library returns:                                                        *)
(*   - ContainerStats returns (types.ContainerStats{}, err) on error, a    *)
(*     value whose Body is nil;                                            *)
(*   - ContainerInspect returns (types.ContainerJSON{}, err) when the      *)
(*     request fails or the container ID is empty, a value whose Config    *)
(*     pointer is nil; it returns the decoded value together with an error *)
(*     when the response decodes only in part;                             *)
(*   - a nil dereference or a Read on a nil io.Reader panics; a panic      *)
(*     runs the goroutine's deferred calls and then ends the process.      *)
(* float64 arithmetic is modelled by exact rational arithmetic.            *)
(***************************************************************************)
EXTENDS Integers, Sequences, FiniteSets, TLC

\* ------------------------------------------------------------------ bounds
\* The largest number of containers a listing returns.
MaxContainers == 2
\* The largest number of errors the event stream delivers to Watch.
MaxStreamErrors == 2
\* The largest number of containers of the List() call that runs beside Watch.
MaxWatchedContainers == 1
\* The largest raw counter value of a snapshot (calcCPUPercent).
MaxCounter == 3
\* The largest CPU count of a snapshot (calcCPUPercent).
MaxCPUs == 2
\* The width given to the uint64 counters of a snapshot (2^UintBits values).
UintBits == 3
\* The largest number of entries of blkio.IoServiceBytesRecursive.
MaxBlkioEntries == 2

\* --------------------------------------------------------------- constants
\* ch := make(chan *StatsEntry, 1)
ChanCap == 1
\* done := make(chan struct{}, 1)
DoneCap == 1

ContainerIDs == 1 .. MaxContainers
\* The empty string as a container ID (the zero StatsEntry's ContainerID).
NoID == 0

VARIABLES
    dc,           \* Exporter.dc: the identity of the current client handle
    lpc,          \* List: position of the calling goroutine
    containers,   \* List: the listing, a sequence of container IDs
    spawned,      \* List: number of workers started by the for loop
    wg,           \* List: the sync.WaitGroup counter
    ch,           \* List: buffer of the channel ch
    closed,       \* List: whether ch has been closed
    done,         \* List: number of tokens in the channel done
    stats,        \* List: the slice stats the collector appends to
    sentLog,      \* history: the entries sent on ch, in the order of the sends
    cpc,          \* List: position of the collector goroutine
    wpc,          \* worker: position, per container
    s,            \* worker: the local s (a StatsEntry), per container
    info,         \* getLabels: the local info and err, per container
    result,       \* List: the returned slice
    retErr,       \* List: the returned error
    crashed,      \* the process has exited on an unrecovered panic
    kpc,          \* Watch: position
    werr,         \* Watch: the local err last received from eventErr
    sub,          \* Watch: the handle its current event stream was opened on
    dcAtErr,      \* Watch: e.dc when the last stream error was received
    nErr,         \* Watch: number of stream errors received
    nSub,         \* Watch: number of subscriptions made
    listed,       \* history: how the ContainerList call ended
    outcome,      \* history: how each worker's runtime calls ended
    wlog,         \* history: what Watch did since it last received an error
    statsCalls,   \* number of ContainerStats calls issued, per container
    inspectCalls, \* number of ContainerInspect calls issued, per container
    streamArgs,   \* history: the stream arguments of the ContainerStats calls
    v,            \* calcCPUPercent: the snapshot and prevCPU, prevSystem
    cpuPercent,   \* calcCPUPercent: the returned value (a rational)
    cpuDone,      \* calcCPUPercent: whether it has returned
    call,         \* the derivation function applied by itself: its name,
                  \* argument and result, and whether it has returned
    hpc,          \* /stats handler: position
    responses     \* /stats handler: the c.JSON calls made, in order

listVars == <<lpc, containers, spawned, wg, ch, closed, done, stats, sentLog,
              cpc, result, retErr, listed>>
workerVars == <<wpc, s, info, statsCalls, streamArgs, inspectCalls, outcome>>
watchVars == <<kpc, werr, sub, dcAtErr, nErr, nSub, wlog>>
cpuVars == <<v, cpuPercent, cpuDone>>
calcVars == <<cpuVars, call>>
handlerVars == <<hpc, responses>>
vars == <<dc, listVars, workerVars, crashed, watchVars, calcVars, handlerVars>>

\* ---------------------------------------------------------------- labels
\* The keys of the table KubernetesLabels, and one key outside it.
LabelKeys == {"io.kubernetes.pod.namespace", "io.kubernetes.pod.name",
              "io.kubernetes.container.name", "unrelated"}

\* The table KubernetesLabels; a Go map lookup of a missing key gives "".
KubernetesLabels(k) ==
    CASE k = "io.kubernetes.pod.namespace" -> "kubernetes_pod_namespace"
      [] k = "io.kubernetes.pod.name" -> "kubernetes_pod_name"
      [] k = "io.kubernetes.container.name" -> "kubernetes_container_name"
      [] OTHER -> ""

\* ProjectLabels that keeps an unrecognized label under its own key.
ProjectLabelsKeepAll(labels) ==
    { <<IF KubernetesLabels(kv[1]) # "" THEN KubernetesLabels(kv[1])
        ELSE kv[1], kv[2]>> : kv \in labels }

\* A label mapping is a set of <<key, value>> pairs with distinct keys.
\* The loop of getLabels over info.Config.Labels.
ProjectLabels(labels) ==
    { <<KubernetesLabels(kv[1]), kv[2]>> :
        kv \in { p \in labels : KubernetesLabels(p[1]) # "" } }

\* The Config.Labels a successful or partly decoded inspection may carry.
InspectLabels ==
    { {},
      { <<"io.kubernetes.pod.name", "x">>, <<"unrelated", "y">> } }

\* ------------------------------------------------------------ StatsEntry
\* metrics stands for the ten numeric fields and ContainerName; hasLabels is
\* whether KubernetesLabels is a non-nil map.
ZeroEntry == [id |-> NoID, metrics |-> 0, hasLabels |-> FALSE, labels |-> {}]

\* empty := &StatsEntry{}
empty == ZeroEntry

\* The numeric fields getStats derives from container c's snapshot.
Metrics(c) == 10 * c

\* types.ContainerJSON{} with the err of ContainerInspect.
ZeroInfo == [err |-> FALSE, configNil |-> TRUE, labels |-> {}]

\* What ContainerInspect returns for container ID id.
InspectResults(id) ==
    LET failed == { [err |-> TRUE, configNil |-> TRUE, labels |-> {}] }
        ok == { [err |-> FALSE, configNil |-> FALSE, labels |-> l] :
                    l \in InspectLabels }
        partial == { [err |-> TRUE, configNil |-> FALSE, labels |-> l] :
                    l \in InspectLabels }
    IN  IF id = NoID THEN failed ELSE ok \cup failed \cup partial

\* newDockerClient: a handle distinct from every earlier one.
newDockerClient == dc + 1

\* An element of ch and of stats: the entry e, with the worker that sent it.
Msg(c, e) == [by |-> c, e |-> e]

\* The outcome of each call a worker makes: "none" (not made), "ok", "err".
NoOutcome == [stats |-> "none", derive |-> "none", inspect |-> "none"]

\* ------------------------------------------------------------------ Init
InitList ==
    /\ dc = 1
    /\ lpc = "list"
    /\ containers = <<>>
    /\ spawned = 0
    /\ wg = 0
    /\ ch = <<>>
    /\ closed = FALSE
    /\ done = 0
    /\ stats = <<>>
    /\ sentLog = <<>>
    /\ cpc = "none"
    /\ wpc = [c \in ContainerIDs |-> "none"]
    /\ s = [c \in ContainerIDs |-> ZeroEntry]
    /\ info = [c \in ContainerIDs |-> ZeroInfo]
    /\ result = <<>>
    /\ retErr = "none"
    /\ crashed = FALSE
    /\ listed = "none"
    /\ outcome = [c \in ContainerIDs |-> NoOutcome]
    /\ statsCalls = [c \in ContainerIDs |-> 0]
    /\ streamArgs = [c \in ContainerIDs |-> {}]
    /\ inspectCalls = [c \in ContainerIDs |-> 0]

InitWatch ==
    /\ kpc = "events"
    /\ werr = "none"
    /\ sub = 0
    /\ dcAtErr = 0
    /\ nErr = 0
    /\ nSub = 0
    /\ wlog = <<>>

\* The fields of types.StatsJSON that calcCPUPercent and its caller read;
\* PercpuUsage stands for len(v.CPUStats.CPUUsage.PercpuUsage).
Snapshots ==
    [TotalUsage : 0 .. MaxCounter, SystemUsage : 0 .. MaxCounter,
     PreTotalUsage : 0 .. MaxCounter, PreSystemUsage : 0 .. MaxCounter,
     OnlineCPUs : 0 .. MaxCPUs, PercpuUsage : 0 .. MaxCPUs]

ZeroSnapshot ==
    [TotalUsage |-> 0, SystemUsage |-> 0, PreTotalUsage |-> 0,
     PreSystemUsage |-> 0, OnlineCPUs |-> 0, PercpuUsage |-> 0]

\* A float64 value, as the exact rational n/d in lowest terms with d > 0.
RECURSIVE GCD(_, _)
GCD(a, b) == IF b = 0 THEN a ELSE GCD(b, a % b)

Abs(x) == IF x < 0 THEN -x ELSE x

Rat(n, d) ==
    LET g == GCD(Abs(n), Abs(d))
        sign == IF d < 0 THEN -1 ELSE 1
    IN  [n |-> sign * (n \div g), d |-> sign * (d \div g)]

\* float64(x) of an integer x.
Float(x) == [n |-> x, d |-> 1]

Zero == Float(0)

RatSub(a, b) == Rat(a.n * b.d - b.n * a.d, a.d * b.d)
RatMul(a, b) == Rat(a.n * b.n, a.d * b.d)
RatDiv(a, b) == Rat(a.n * b.d, a.d * b.n)
RatGt(a, b) == a.n * b.d > b.n * a.d

InitCPUIdle ==
    /\ v = ZeroSnapshot
    /\ cpuPercent = Zero
    /\ cpuDone = FALSE

RatAdd(a, b) == Rat(a.n * b.d + b.n * a.d, a.d * b.d)

\* uint64 arithmetic: the values, and the wrap-around of + and -.
UintModulus == 2 ^ UintBits
Uints == 0 .. UintModulus - 1
UintAdd(a, b) == (a + b) % UintModulus
UintSub(a, b) == (a - b) % UintModulus

\* A Go map[string]uint64 is a set of <<key, value>> pairs with distinct
\* keys; the lookup of a missing key gives 0.
Lookup(map, key) ==
    IF \E p \in map : p[1] = key
    THEN (CHOOSE p \in map : p[1] = key)[2]
    ELSE 0

\* types.MemoryStats: Usage, Limit and the map Stats, with or without the
\* key "cache".
MemorySnapshots ==
    [Usage : Uints, Limit : {0, UintModulus - 1},
     Stats : {{}} \cup { {<<"cache", n>>} : n \in Uints }]

ZeroMemoryStats == [Usage |-> 0, Limit |-> 0, Stats |-> {}]

\* No derivation function is applied by itself.
NoCall == [fn |-> "none", done |-> FALSE]

InitCallIdle == call = NoCall

\* A call of fn on arg, which has not returned: ret is the zero value of
\* its result.
Call(fn, arg, ret) == [fn |-> fn, arg |-> arg, ret |-> ret, done |-> FALSE]

\* The call has returned r.
Return(r) == [call EXCEPT !.ret = r, !.done = TRUE]

\* The operation codes of types.BlkioStatEntry the model draws from; a Go
\* string is the sequence of its bytes.
BlkioOps ==
    { <<>>, <<"R", "e", "a", "d">>, <<"r", "e", "a", "d">>,
      <<"W", "r", "i", "t", "e">>, <<"w", "r", "i", "t", "e">>,
      <<"S", "y", "n", "c">>, <<"T", "o", "t", "a", "l">> }

\* The values of blkio.IoServiceBytesRecursive: sequences of entries, with
\* small values and the largest uint64.
BlkioValues == {1, 2, UintModulus - 1}
BlkioEntries == [Op : BlkioOps, Value : BlkioValues]
BlkioLists ==
    UNION { [1 .. n -> BlkioEntries] : n \in 0 .. MaxBlkioEntries }

\* The values of info.Config.Labels: every key of LabelKeys absent or
\* present with one of two values.
LabelValues == {"x", "y"}
LabelMaps ==
    { { <<k, f[k]>> : k \in { j \in LabelKeys : f[j] # "absent" } } :
        f \in [LabelKeys -> LabelValues \cup {"absent"}] }

\* The numeric fields of the StatsEntry getStats returns, all zero.
ZeroStatsFields ==
    [CPUPercentage |-> Zero, Memory |-> Zero, MemoryPercentage |-> Zero,
     MemoryLimit |-> Zero, NetworkRx |-> Zero, NetworkTx |-> Zero,
     BlockRead |-> Zero, BlockWrite |-> Zero]

\* types.ContainerStats with its body decoded into types.StatsJSON.
ZeroResponse ==
    [OSType |-> "", CPUStats |-> ZeroSnapshot,
     MemoryStats |-> ZeroMemoryStats, BlkioStats |-> <<>>, Networks |-> {}]

\* The responses getStats is applied to: both OS types, an idle and a busy
\* CPU, memory with and without usage, limit and cache statistic, an empty
\* and a non-empty block-I/O list, and zero, one and two network interfaces.
OSTypes == {"windows", "linux"}

StatsResponses ==
    [OSType : OSTypes,
     CPUStats : { sn \in Snapshots :
                    /\ sn.TotalUsage \in {0, 1} /\ sn.SystemUsage = MaxCounter
                    /\ sn.PreTotalUsage = 0 /\ sn.PreSystemUsage = 0
                    /\ sn.OnlineCPUs = MaxCPUs /\ sn.PercpuUsage = 0 },
     MemoryStats : { ms \in MemorySnapshots :
                       /\ ms.Usage \in {0, 2}
                       /\ ms.Stats \in {{}, {<<"cache", 1>>}} },
     BlkioStats : { <<>>,
                    <<[Op |-> <<"R", "e", "a", "d">>, Value |-> 2],
                      [Op |-> <<"w", "r", "i", "t", "e">>, Value |-> 1]>> },
     Networks : { {},
                  { <<"eth0", [RxBytes |-> 1, TxBytes |-> 2]>> },
                  { <<"eth0", [RxBytes |-> 1, TxBytes |-> 2]>>,
                    <<"eth1", [RxBytes |-> 2, TxBytes |-> 2]>> } }]

\* The handler of GET /stats is about to call exporter.List().
InitHandler ==
    /\ hpc = "list"
    /\ responses = <<>>

Init == InitList /\ InitWatch /\ InitHandler /\ InitCPUIdle /\ InitCallIdle

\* calcCPUPercent on every snapshot within the bounds.
InitCPU ==
    /\ InitList /\ InitWatch /\ InitHandler /\ InitCallIdle
    /\ v \in Snapshots
    /\ cpuPercent = Zero
    /\ cpuDone = FALSE

\* calcMemUsageNoCache on every memory snapshot within the bounds.
InitMem ==
    /\ InitList /\ InitWatch /\ InitHandler /\ InitCPUIdle
    /\ \E mem \in MemorySnapshots :
          call = Call("calcMemUsageNoCache", mem, Zero)

\* calcBlockIO on every list of entries within the bounds.
InitBlk ==
    /\ InitList /\ InitWatch /\ InitHandler /\ InitCPUIdle
    /\ \E blkio \in BlkioLists :
          call = Call("calcBlockIO", blkio, <<Zero, Zero>>)

\* The loop of getLabels on every label mapping within the bounds.
InitLabels ==
    /\ InitList /\ InitWatch /\ InitHandler /\ InitCPUIdle
    /\ \E configLabels \in LabelMaps :
          call = Call("getLabels", configLabels, {})

\* getStats on every response of StatsResponses.
InitStats ==
    /\ InitList /\ InitWatch /\ InitHandler /\ InitCPUIdle
    /\ \E response \in StatsResponses :
          call = Call("getStats", response, ZeroStatsFields)

\* ------------------------------------------------------------------ List
\* ListContainersUpTo without the return of line 183: a failed listing goes
\* on with no container.
ListContainersNoReturn(max) ==
    /\ ~crashed
    /\ lpc = "list"
    /\ \/ /\ containers' = <<>>
          /\ listed' = "err"
       \/ \E n \in 0 .. max :
            /\ containers' = [i \in 1 .. n |-> i]
            /\ listed' = "ok"
    /\ cpc' = "range"
    /\ lpc' = "spawn"
    /\ UNCHANGED <<dc, spawned, wg, ch, closed, done, stats, sentLog, result,
                   retErr, workerVars, crashed, watchVars, calcVars,
                   handlerVars>>

\* Lines 181-194: the listing, and on success the buffers, the channels and
\* the collector goroutine.
ListContainersUpTo(max) ==
    /\ ~crashed
    /\ lpc = "list"
    /\ \/ /\ lpc' = "returned"
          /\ result' = <<>>
          /\ retErr' = "listErr"
          /\ listed' = "err"
          /\ UNCHANGED <<containers, cpc>>
       \/ \E n \in 0 .. max :
            /\ containers' = [i \in 1 .. n |-> i]
            /\ cpc' = "range"
            /\ lpc' = "spawn"
            /\ listed' = "ok"
            /\ UNCHANGED <<result, retErr>>
    /\ UNCHANGED <<dc, spawned, wg, ch, closed, done, stats, sentLog,
                   workerVars, crashed, watchVars, calcVars, handlerVars>>

ListContainers == ListContainersUpTo(MaxContainers)

\* The same call beside Watch, over a shorter listing.
ListContainersWatched == ListContainersUpTo(MaxWatchedContainers)

\* Lines 198-200 and 214: one iteration of the for loop, or its end.
SpawnWorker ==
    /\ ~crashed
    /\ lpc = "spawn"
    /\ IF spawned < Len(containers)
       THEN /\ wg' = wg + 1
            /\ wpc' = [wpc EXCEPT ![containers[spawned + 1]] = "fetch"]
            /\ spawned' = spawned + 1
            /\ lpc' = lpc
       ELSE /\ lpc' = "wait"
            /\ UNCHANGED <<wg, wpc, spawned>>
    /\ UNCHANGED <<dc, containers, ch, closed, done, stats, sentLog, cpc,
                   result, retErr, listed, s, info, statsCalls, streamArgs,
                   inspectCalls, outcome, crashed, watchVars, calcVars,
                   handlerVars>>

\* WgWait that does not wait for the counter to reach zero.
WgWaitNoBarrier ==
    /\ ~crashed
    /\ lpc = "wait"
    /\ lpc' = "close"
    /\ UNCHANGED <<dc, containers, spawned, wg, ch, closed, done, stats,
                   sentLog, cpc, result, retErr, listed, workerVars, crashed,
                   watchVars, calcVars, handlerVars>>

\* Line 215: wg.Wait().
WgWait ==
    /\ ~crashed
    /\ lpc = "wait"
    /\ wg = 0
    /\ lpc' = "close"
    /\ UNCHANGED <<dc, containers, spawned, wg, ch, closed, done, stats,
                   sentLog, cpc, result, retErr, listed, workerVars, crashed,
                   watchVars, calcVars, handlerVars>>

\* CloseCh without the close: List() goes on to wait for done.
CloseChSkipped ==
    /\ ~crashed
    /\ lpc = "close"
    /\ lpc' = "recvdone"
    /\ UNCHANGED <<dc, containers, spawned, wg, ch, closed, done, stats,
                   sentLog, cpc, result, retErr, listed, workerVars, crashed,
                   watchVars, calcVars, handlerVars>>

\* Line 216: close(ch).
CloseCh ==
    /\ ~crashed
    /\ lpc = "close"
    /\ closed' = TRUE
    /\ lpc' = "recvdone"
    /\ UNCHANGED <<dc, containers, spawned, wg, ch, done, stats, sentLog, cpc,
                   result, retErr, listed, workerVars, crashed, watchVars,
                   calcVars, handlerVars>>

\* RecvDone that does not wait for the collector's signal.
RecvDoneNoWait ==
    /\ ~crashed
    /\ lpc = "recvdone"
    /\ done' = done
    /\ result' = stats
    /\ retErr' = "nil"
    /\ lpc' = "returned"
    /\ UNCHANGED <<dc, containers, spawned, wg, ch, closed, stats, sentLog,
                   cpc, listed, workerVars, crashed, watchVars, calcVars,
                   handlerVars>>

\* Lines 218-219: <-done; return stats, nil.
RecvDone ==
    /\ ~crashed
    /\ lpc = "recvdone"
    /\ done > 0
    /\ done' = done - 1
    /\ result' = stats
    /\ retErr' = "nil"
    /\ lpc' = "returned"
    /\ UNCHANGED <<dc, containers, spawned, wg, ch, closed, stats, sentLog,
                   cpc, listed, workerVars, crashed, watchVars, calcVars,
                   handlerVars>>

\* CollectorRecv that puts the received entry in front.
CollectorRecvPrepend ==
    /\ ~crashed
    /\ cpc = "range"
    /\ ch # <<>>
    /\ stats' = <<Head(ch)>> \o stats
    /\ ch' = Tail(ch)
    /\ UNCHANGED <<dc, lpc, containers, spawned, wg, closed, done, sentLog,
                   cpc, result, retErr, listed, workerVars, crashed,
                   watchVars, calcVars, handlerVars>>

\* Lines 190-191: the collector receives one entry and appends it.
CollectorRecv ==
    /\ ~crashed
    /\ cpc = "range"
    /\ ch # <<>>
    /\ stats' = Append(stats, Head(ch))
    /\ ch' = Tail(ch)
    /\ UNCHANGED <<dc, lpc, containers, spawned, wg, closed, done, sentLog,
                   cpc, result, retErr, listed, workerVars, crashed,
                   watchVars, calcVars, handlerVars>>

\* Lines 190 and 193: the range ends on the closed, drained channel.
CollectorDone ==
    /\ ~crashed
    /\ cpc = "range"
    /\ ch = <<>>
    /\ closed
    /\ done < DoneCap
    /\ done' = done + 1
    /\ cpc' = "exited"
    /\ UNCHANGED <<dc, lpc, containers, spawned, wg, ch, closed, stats,
                   sentLog, result, retErr, listed, workerVars, crashed,
                   watchVars, calcVars, handlerVars>>

\* ---------------------------------------------------------------- worker
\* A step of a worker is one access to shared state (a call on e.dc, a send
\* on ch, the write of e.dc, wg.Done) with the local computation after it.

\* A send on ch by worker c (ch <- e): it blocks while the buffer is full,
\* and panics when ch is closed.
Send(c, e, next) ==
    IF closed
    THEN /\ wpc' = [wpc EXCEPT ![c] = "panic"]
         /\ ch' = ch
         /\ sentLog' = sentLog
    ELSE /\ Len(ch) < ChanCap
         /\ ch' = Append(ch, Msg(c, e))
         /\ sentLog' = Append(sentLog, Msg(c, e))
         /\ wpc' = [wpc EXCEPT ![c] = next]

\* Lines 260-304, getStats on the body of a successful fetch: reading or
\* decoding it fails (&StatsEntry{}, err), or the entry is derived.
getStats(c, ok) ==
    IF ok
    THEN [id |-> c, metrics |-> Metrics(c), hasLabels |-> FALSE, labels |-> {}]
    ELSE ZeroEntry

\* Lines 252-257: labels built from info.Config.Labels, stored in the entry.
setLabels(e, labels) ==
    [e EXCEPT !.hasLabels = TRUE, !.labels = ProjectLabels(labels)]

\* WorkerFetch that issues the call again when the fetch fails.
WorkerFetchRetry(c) ==
    /\ ~crashed
    /\ wpc[c] = "fetch"
    /\ statsCalls' = [statsCalls EXCEPT ![c] = @ + 1]
    /\ streamArgs' = [streamArgs EXCEPT ![c] = @ \cup {FALSE}]
    /\ \E fetched \in BOOLEAN, derived \in BOOLEAN :
         IF ~fetched
         THEN /\ wpc' = wpc
              /\ s' = s
              /\ outcome' = [outcome EXCEPT ![c].stats = "err"]
         ELSE /\ s' = [s EXCEPT ![c] = getStats(c, derived)]
              /\ wpc' = [wpc EXCEPT ![c] =
                            IF derived THEN "inspect" ELSE "sendEmptyDerive"]
              /\ outcome' = [outcome EXCEPT
                                ![c].stats = "ok",
                                ![c].derive = IF derived THEN "ok" ELSE "err"]
    /\ UNCHANGED <<dc, listVars, info, inspectCalls, crashed, watchVars,
                   calcVars, handlerVars>>

\* WorkerFetch that also recreates the handle when the fetch fails.
WorkerFetchReconnect(c) ==
    /\ ~crashed
    /\ wpc[c] = "fetch"
    /\ statsCalls' = [statsCalls EXCEPT ![c] = @ + 1]
    /\ streamArgs' = [streamArgs EXCEPT ![c] = @ \cup {FALSE}]
    /\ \E fetched \in BOOLEAN, derived \in BOOLEAN :
         IF ~fetched
         THEN /\ wpc' = [wpc EXCEPT ![c] = "sendEmptyFetch"]
              /\ s' = s
              /\ outcome' = [outcome EXCEPT ![c].stats = "err"]
              /\ dc' = newDockerClient
         ELSE /\ s' = [s EXCEPT ![c] = getStats(c, derived)]
              /\ wpc' = [wpc EXCEPT ![c] =
                            IF derived THEN "inspect" ELSE "sendEmptyDerive"]
              /\ outcome' = [outcome EXCEPT
                                ![c].stats = "ok",
                                ![c].derive = IF derived THEN "ok" ELSE "err"]
              /\ dc' = dc
    /\ UNCHANGED <<listVars, info, inspectCalls, crashed, watchVars, calcVars,
                   handlerVars>>

\* Lines 202-203 and 207-208: e.dc.ContainerStats(ctx, containerID, false),
\* false being the stream argument;
\* after a fetch without error, s, err := e.getStats(resp).
WorkerFetch(c) ==
    /\ ~crashed
    /\ wpc[c] = "fetch"
    /\ statsCalls' = [statsCalls EXCEPT ![c] = @ + 1]
    /\ streamArgs' = [streamArgs EXCEPT ![c] = @ \cup {FALSE}]
    /\ \E fetched \in BOOLEAN, derived \in BOOLEAN :
         IF ~fetched
         THEN /\ wpc' = [wpc EXCEPT ![c] = "sendEmptyFetch"]
              /\ s' = s
              /\ outcome' = [outcome EXCEPT ![c].stats = "err"]
         ELSE /\ s' = [s EXCEPT ![c] = getStats(c, derived)]
              /\ wpc' = [wpc EXCEPT ![c] =
                            IF derived THEN "inspect" ELSE "sendEmptyDerive"]
              /\ outcome' = [outcome EXCEPT
                                ![c].stats = "ok",
                                ![c].derive = IF derived THEN "ok" ELSE "err"]
    /\ UNCHANGED <<dc, listVars, info, inspectCalls, crashed, watchVars,
                   calcVars, handlerVars>>

\* Lines 204 and 207: ch <- empty after a failed fetch; no return follows,
\* and getStats reads the nil Body of the zero response: ioutil.ReadAll
\* panics.
WorkerSendEmptyFetch(c) ==
    /\ ~crashed
    /\ wpc[c] = "sendEmptyFetch"
    /\ Send(c, empty, "panic")
    /\ UNCHANGED <<dc, lpc, containers, spawned, wg, closed, done, stats, cpc,
                   result, retErr, listed, s, info, statsCalls, streamArgs,
                   inspectCalls, outcome, crashed, watchVars, calcVars,
                   handlerVars>>

\* Line 209: ch <- empty after a failed derivation; no return follows.
WorkerSendEmptyDerive(c) ==
    /\ ~crashed
    /\ wpc[c] = "sendEmptyDerive"
    /\ Send(c, empty, "inspect")
    /\ UNCHANGED <<dc, lpc, containers, spawned, wg, closed, done, stats, cpc,
                   result, retErr, listed, s, info, statsCalls, streamArgs,
                   inspectCalls, outcome, crashed, watchVars, calcVars,
                   handlerVars>>

\* Lines 244-246 and, without an error, 252-257:
\* e.dc.ContainerInspect(ctx, stats.ContainerID).
GetLabelsInspect(c) ==
    /\ ~crashed
    /\ wpc[c] = "inspect"
    /\ inspectCalls' = [inspectCalls EXCEPT ![c] = @ + 1]
    /\ \E r \in InspectResults(s[c].id) :
         /\ outcome' = [outcome EXCEPT
                           ![c].inspect = IF r.err THEN "err" ELSE "ok"]
         /\ IF r.err
            THEN /\ info' = [info EXCEPT ![c] = r]
                 /\ wpc' = [wpc EXCEPT ![c] = "reconnect"]
                 /\ s' = s
            ELSE /\ s' = [s EXCEPT ![c] = setLabels(s[c], r.labels)]
                 /\ wpc' = [wpc EXCEPT ![c] = "send"]
                 /\ info' = info
    /\ UNCHANGED <<dc, listVars, statsCalls, streamArgs, crashed, watchVars,
                   calcVars, handlerVars>>

\* Lines 247-257 after an inspection error: e.dc = newDockerClient(...), the
\* sleep, the warning, then the loop over info.Config.Labels, which
\* dereferences the nil Config of the zero ContainerJSON and panics.
GetLabelsReconnect(c) ==
    /\ ~crashed
    /\ wpc[c] = "reconnect"
    /\ dc' = newDockerClient
    /\ IF info[c].configNil
       THEN /\ wpc' = [wpc EXCEPT ![c] = "panic"]
            /\ s' = s
       ELSE /\ s' = [s EXCEPT ![c] = setLabels(s[c], info[c].labels)]
            /\ wpc' = [wpc EXCEPT ![c] = "send"]
    /\ UNCHANGED <<listVars, info, statsCalls, streamArgs, inspectCalls,
                   outcome, crashed, watchVars, calcVars, handlerVars>>

\* Line 212: ch <- s.
WorkerSend(c) ==
    /\ ~crashed
    /\ wpc[c] = "send"
    /\ Send(c, s[c], "return")
    /\ UNCHANGED <<dc, lpc, containers, spawned, wg, closed, done, stats, cpc,
                   result, retErr, listed, s, info, statsCalls, streamArgs,
                   inspectCalls, outcome, crashed, watchVars, calcVars,
                   handlerVars>>

\* Line 201: defer wg.Done(), run when the worker returns or panics; the
\* goroutine's locals are gone after it.
WorkerDeferredDone(c) ==
    /\ ~crashed
    /\ wpc[c] \in {"return", "panic"}
    /\ wg' = wg - 1
    /\ wpc' = [wpc EXCEPT ![c] = IF wpc[c] = "return" THEN "done" ELSE "fatal"]
    /\ s' = [s EXCEPT ![c] = ZeroEntry]
    /\ info' = [info EXCEPT ![c] = ZeroInfo]
    /\ UNCHANGED <<dc, lpc, containers, spawned, ch, closed, done, stats,
                   sentLog, cpc, result, retErr, listed, statsCalls,
                   streamArgs, inspectCalls, outcome, crashed, watchVars,
                   calcVars, handlerVars>>

\* The Go runtime ends the process once a panicking goroutine has run its
\* deferred calls without a recover.
Crash ==
    /\ ~crashed
    /\ \E c \in ContainerIDs : wpc[c] = "fatal"
    /\ crashed' = TRUE
    /\ UNCHANGED <<dc, listVars, workerVars, watchVars, calcVars,
                   handlerVars>>

Worker(c) ==
    \/ WorkerFetch(c)
    \/ WorkerSendEmptyFetch(c)
    \/ WorkerSendEmptyDerive(c)
    \/ GetLabelsInspect(c)
    \/ GetLabelsReconnect(c)
    \/ WorkerSend(c)
    \/ WorkerDeferredDone(c)

\* ----------------------------------------------------------------- Watch
StreamErrors == {"EOF", "ErrUnexpectedEOF", "other"}

\* Line 234: err == io.EOF || err == io.ErrUnexpectedEOF.
StreamClosed(err) == err = "EOF" \/ err = "ErrUnexpectedEOF"

\* Line 228: the first e.dc.Events(ctx, options).
WatchEvents ==
    /\ ~crashed
    /\ kpc = "events"
    /\ sub' = dc
    /\ nSub' = nSub + 1
    /\ kpc' = "select"
    /\ wlog' = Append(wlog, [op |-> "subscribe", h |-> dc])
    /\ UNCHANGED <<dc, listVars, workerVars, crashed, werr, dcAtErr, nErr,
                   calcVars, handlerVars>>

\* WatchRecv that rebuilds the handle on every error.
WatchRecvAlwaysRebuild ==
    /\ ~crashed
    /\ kpc = "select"
    /\ nErr < MaxStreamErrors
    /\ \E err \in StreamErrors : werr' = err
    /\ kpc' = "rebuild"
    /\ nErr' = nErr + 1
    /\ dcAtErr' = dc
    /\ wlog' = <<>>
    /\ UNCHANGED <<dc, listVars, workerVars, crashed, sub, nSub, calcVars,
                   handlerVars>>

\* WatchRecv that leaves the loop on an error that is not a closed stream.
WatchRecvReturn ==
    /\ ~crashed
    /\ kpc = "select"
    /\ nErr < MaxStreamErrors
    /\ \E err \in StreamErrors :
         /\ werr' = err
         /\ kpc' = IF StreamClosed(err) THEN "rebuild" ELSE "returned"
    /\ nErr' = nErr + 1
    /\ dcAtErr' = dc
    /\ wlog' = <<>>
    /\ UNCHANGED <<dc, listVars, workerVars, crashed, sub, nSub, calcVars,
                   handlerVars>>

\* Lines 232-234: an error arrives on eventErr; the warning and the test.
WatchRecv ==
    /\ ~crashed
    /\ kpc = "select"
    /\ nErr < MaxStreamErrors
    /\ \E err \in StreamErrors :
         /\ werr' = err
         /\ kpc' = IF StreamClosed(err) THEN "rebuild" ELSE "resubscribe"
    /\ nErr' = nErr + 1
    /\ dcAtErr' = dc
    /\ wlog' = <<>>
    /\ UNCHANGED <<dc, listVars, workerVars, crashed, sub, nSub, calcVars,
                   handlerVars>>

\* Line 235: e.dc = newDockerClient(e.dcOpts...).
WatchRebuild ==
    /\ ~crashed
    /\ kpc = "rebuild"
    /\ dc' = newDockerClient
    /\ kpc' = "sleep"
    /\ wlog' = Append(wlog, [op |-> "build", h |-> newDockerClient])
    /\ UNCHANGED <<listVars, workerVars, crashed, werr, sub, dcAtErr, nErr,
                   nSub, calcVars, handlerVars>>

\* Line 236: time.Sleep(time.Millisecond * 250).
WatchSleep ==
    /\ ~crashed
    /\ kpc = "sleep"
    /\ kpc' = "resubscribe"
    /\ wlog' = Append(wlog, [op |-> "sleep", h |-> dc])
    /\ UNCHANGED <<dc, listVars, workerVars, crashed, werr, sub, dcAtErr,
                   nErr, nSub, calcVars, handlerVars>>

\* Line 238: _, eventErr = e.dc.Events(ctx, options).
WatchResubscribe ==
    /\ ~crashed
    /\ kpc = "resubscribe"
    /\ sub' = dc
    /\ nSub' = nSub + 1
    /\ kpc' = "select"
    /\ wlog' = Append(wlog, [op |-> "subscribe", h |-> dc])
    /\ UNCHANGED <<dc, listVars, workerVars, crashed, werr, dcAtErr, nErr,
                   calcVars, handlerVars>>

\* The steps Watch takes by itself (all but the arrival of a stream error).
WatchStep ==
    \/ WatchEvents
    \/ WatchRebuild
    \/ WatchSleep
    \/ WatchResubscribe

ListStep ==
    \/ ListContainers
    \/ SpawnWorker
    \/ WgWait
    \/ CloseCh
    \/ RecvDone

Collector ==
    \/ CollectorRecv
    \/ CollectorDone

\* One call of List().
Next ==
    \/ ListContainers
    \/ SpawnWorker
    \/ WgWait
    \/ CloseCh
    \/ RecvDone
    \/ CollectorRecv
    \/ CollectorDone
    \/ \E c \in ContainerIDs : WorkerFetch(c)
    \/ \E c \in ContainerIDs : WorkerSendEmptyFetch(c)
    \/ \E c \in ContainerIDs : WorkerSendEmptyDerive(c)
    \/ \E c \in ContainerIDs : GetLabelsInspect(c)
    \/ \E c \in ContainerIDs : GetLabelsReconnect(c)
    \/ \E c \in ContainerIDs : WorkerSend(c)
    \/ \E c \in ContainerIDs : WorkerDeferredDone(c)
    \/ Crash

Spec == Init /\ [][Next]_vars

\* Runnable goroutines are scheduled, blocked senders are served in turn,
\* and a fatal panic ends the process.
FairSpec ==
    /\ Spec
    /\ WF_vars(ListStep)
    /\ WF_vars(Collector)
    /\ \A c \in ContainerIDs : SF_vars(Worker(c))
    /\ WF_vars(Crash)

\* Watch beside one call of List().
WatchNext ==
    \/ WatchEvents
    \/ WatchRecv
    \/ WatchRebuild
    \/ WatchSleep
    \/ WatchResubscribe
    \/ ListContainersWatched
    \/ SpawnWorker
    \/ WgWait
    \/ CloseCh
    \/ RecvDone
    \/ CollectorRecv
    \/ CollectorDone
    \/ \E c \in ContainerIDs : WorkerFetch(c)
    \/ \E c \in ContainerIDs : WorkerSendEmptyFetch(c)
    \/ \E c \in ContainerIDs : WorkerSendEmptyDerive(c)
    \/ \E c \in ContainerIDs : GetLabelsInspect(c)
    \/ \E c \in ContainerIDs : GetLabelsReconnect(c)
    \/ \E c \in ContainerIDs : WorkerSend(c)
    \/ \E c \in ContainerIDs : WorkerDeferredDone(c)
    \/ Crash

WatchSpec == Init /\ [][WatchNext]_vars

\* WatchSpec with Watch scheduled whenever it can take a step (a sleep
\* ends). The arrival of a stream error (WatchRecv) is up to the runtime and
\* carries no fairness; nothing is assumed of the goroutines of List().
FairWatchSpec == WatchSpec /\ WF_vars(WatchStep)

\* ---------------------------------------------------- GET /stats handler
\* The body of a c.JSON call: Response{Stats: ..., Msg: ...}.
Response(st, msg) == [Stats |-> st, Msg |-> msg]

\* c.JSON(code, obj), as an element of responses.
JSON(code, obj) == [code |-> code, obj |-> obj]

\* http.StatusInternalServerError and http.StatusOK.
StatusInternalServerError == 500
StatusOK == 200

\* HandlerCheckErr with a return after the error response.
HandlerCheckErrReturn ==
    /\ ~crashed
    /\ hpc = "list"
    /\ lpc = "returned"
    /\ IF retErr # "nil"
       THEN /\ responses' = Append(responses,
                                   JSON(StatusInternalServerError,
                                        Response(<<>>, retErr)))
            /\ hpc' = "done"
       ELSE /\ responses' = responses
            /\ hpc' = "json"
    /\ UNCHANGED <<dc, listVars, workerVars, crashed, watchVars, calcVars>>

\* Lines 31-34: exporter.List() has returned; on an error,
\* c.JSON(http.StatusInternalServerError, Response{Msg: err.Error()}).
HandlerCheckErr ==
    /\ ~crashed
    /\ hpc = "list"
    /\ lpc = "returned"
    /\ IF retErr # "nil"
       THEN responses' = Append(responses,
                                JSON(StatusInternalServerError,
                                     Response(<<>>, retErr)))
       ELSE responses' = responses
    /\ hpc' = "json"
    /\ UNCHANGED <<dc, listVars, workerVars, crashed, watchVars, calcVars>>

\* Line 35: c.JSON(http.StatusOK, Response{Stats: result}); the handler
\* returns.
HandlerJSON ==
    /\ ~crashed
    /\ hpc = "json"
    /\ responses' = Append(responses, JSON(StatusOK, Response(result, "")))
    /\ hpc' = "done"
    /\ UNCHANGED <<dc, listVars, workerVars, crashed, watchVars, calcVars>>

\* One request of GET /stats: the handler and its call of List().
HandlerNext ==
    \/ HandlerCheckErr
    \/ HandlerJSON
    \/ ListContainers
    \/ SpawnWorker
    \/ WgWait
    \/ CloseCh
    \/ RecvDone
    \/ CollectorRecv
    \/ CollectorDone
    \/ \E c \in ContainerIDs : WorkerFetch(c)
    \/ \E c \in ContainerIDs : WorkerSendEmptyFetch(c)
    \/ \E c \in ContainerIDs : WorkerSendEmptyDerive(c)
    \/ \E c \in ContainerIDs : GetLabelsInspect(c)
    \/ \E c \in ContainerIDs : GetLabelsReconnect(c)
    \/ \E c \in ContainerIDs : WorkerSend(c)
    \/ \E c \in ContainerIDs : WorkerDeferredDone(c)
    \/ Crash

HandlerSpec == Init /\ [][HandlerNext]_vars

\* -------------------------------------------------------- calcCPUPercent
\* calcCPUPercent without the test cpuDelta > 0.0 of line 319.
calcCPUPercentNoCpuTest(prevCPU, prevSystem, snap) ==
    LET cpuDelta == RatSub(Float(snap.TotalUsage), Float(prevCPU))
        systemDelta == RatSub(Float(snap.SystemUsage), Float(prevSystem))
        onlineCPUs == IF Float(snap.OnlineCPUs) = Zero
                      THEN Float(snap.PercpuUsage)
                      ELSE Float(snap.OnlineCPUs)
    IN  IF RatGt(systemDelta, Zero)
        THEN RatMul(RatMul(RatDiv(cpuDelta, systemDelta), onlineCPUs),
                    Float(100))
        ELSE Zero

\* Lines 306-323.
calcCPUPercent(prevCPU, prevSystem, snap) ==
    LET cpuDelta == RatSub(Float(snap.TotalUsage), Float(prevCPU))
        systemDelta == RatSub(Float(snap.SystemUsage), Float(prevSystem))
        onlineCPUs == IF Float(snap.OnlineCPUs) = Zero
                      THEN Float(snap.PercpuUsage)
                      ELSE Float(snap.OnlineCPUs)
    IN  IF RatGt(systemDelta, Zero) /\ RatGt(cpuDelta, Zero)
        THEN RatMul(RatMul(RatDiv(cpuDelta, systemDelta), onlineCPUs),
                    Float(100))
        ELSE Zero

\* Lines 282-284: getStats takes prevCPU and prevSystem from v.PreCPUStats
\* and calls calcCPUPercent.
CalcCPU ==
    /\ ~cpuDone
    /\ cpuPercent' = calcCPUPercent(v.PreTotalUsage, v.PreSystemUsage, v)
    /\ cpuDone' = TRUE
    /\ UNCHANGED <<dc, listVars, workerVars, crashed, watchVars, v, call,
                   handlerVars>>

NextCPU == CalcCPU

SpecCPU == InitCPU /\ [][NextCPU]_vars

\* --------------------------------------------------- calcMemUsageNoCache
\* Lines 350-353: float64(mem.Usage - mem.Stats["cache"]), the subtraction
\* being one of uint64 values.
calcMemUsageNoCache(m) == Float(UintSub(m.Usage, Lookup(m.Stats, "cache")))

\* Line 286: mem = e.calcMemUsageNoCache(v.MemoryStats).
CalcMem ==
    /\ call.fn = "calcMemUsageNoCache"
    /\ ~call.done
    /\ call' = Return(calcMemUsageNoCache(call.arg))
    /\ UNCHANGED <<dc, listVars, workerVars, crashed, watchVars, cpuVars,
                   handlerVars>>

NextMem == CalcMem

SpecMem == InitMem /\ [][NextMem]_vars

\* ----------------------------------------------------------- calcBlockIO
\* The loop of calcBlockIOLoop that tells the operations apart by the lower
\* case letters only.
RECURSIVE calcBlockIOLowerCase(_, _, _)
calcBlockIOLowerCase(entries, rd, wr) ==
    IF entries = <<>>
    THEN <<rd, wr>>
    ELSE LET bioEntry == Head(entries)
             rest == Tail(entries)
         IN  IF Len(bioEntry.Op) = 0
             THEN calcBlockIOLowerCase(rest, rd, wr)
             ELSE CASE bioEntry.Op[1] = "r" ->
                         calcBlockIOLowerCase(rest, UintAdd(rd, bioEntry.Value),
                                              wr)
                    [] bioEntry.Op[1] = "w" ->
                         calcBlockIOLowerCase(rest, rd,
                                              UintAdd(wr, bioEntry.Value))
                    [] OTHER -> calcBlockIOLowerCase(rest, rd, wr)

\* Lines 326-337: the loop over blkio.IoServiceBytesRecursive, with the
\* uint64 accumulators blkRead and blkWrite.
RECURSIVE calcBlockIOLoop(_, _, _)
calcBlockIOLoop(entries, rd, wr) ==
    IF entries = <<>>
    THEN <<rd, wr>>
    ELSE LET bioEntry == Head(entries)
             rest == Tail(entries)
         IN  IF Len(bioEntry.Op) = 0
             THEN calcBlockIOLoop(rest, rd, wr)
             ELSE CASE bioEntry.Op[1] \in {"r", "R"} ->
                         calcBlockIOLoop(rest, UintAdd(rd, bioEntry.Value), wr)
                    [] bioEntry.Op[1] \in {"w", "W"} ->
                         calcBlockIOLoop(rest, rd, UintAdd(wr, bioEntry.Value))
                    [] OTHER -> calcBlockIOLoop(rest, rd, wr)

\* Lines 325-339: the two totals, converted to float64.
calcBlockIO(entries) ==
    LET totals == calcBlockIOLoop(entries, 0, 0)
    IN  <<Float(totals[1]), Float(totals[2])>>

\* Line 285: blkRead, blkWrite = e.calcBlockIO(v.BlkioStats).
CalcBlk ==
    /\ call.fn = "calcBlockIO"
    /\ ~call.done
    /\ call' = Return(calcBlockIO(call.arg))
    /\ UNCHANGED <<dc, listVars, workerVars, crashed, watchVars, cpuVars,
                   handlerVars>>

NextBlk == CalcBlk

SpecBlk == InitBlk /\ [][NextBlk]_vars

\* ------------------------------------------------------------- getLabels
\* Lines 252-257: the loop over info.Config.Labels and the store into
\* stats.KubernetesLabels.
GetLabelsLoop ==
    /\ call.fn = "getLabels"
    /\ ~call.done
    /\ call' = Return(ProjectLabels(call.arg))
    /\ UNCHANGED <<dc, listVars, workerVars, crashed, watchVars, cpuVars,
                   handlerVars>>

NextLabels == GetLabelsLoop

SpecLabels == InitLabels /\ [][NextLabels]_vars

\* -------------------------------------------------------------- getStats
\* Lines 341-348: the loop over the map network, with the float64
\* accumulators rx and tx.
RECURSIVE calcNetworkLoop(_, _, _)
calcNetworkLoop(network, rx, tx) ==
    IF network = {}
    THEN <<rx, tx>>
    ELSE LET n == CHOOSE x \in network : TRUE
         IN  calcNetworkLoop(network \ {n},
                             RatAdd(rx, Float(n[2].RxBytes)),
                             RatAdd(tx, Float(n[2].TxBytes)))

calcNetwork(network) == calcNetworkLoop(network, Zero, Zero)

\* Lines 355-360.
calcMemPercentNoCache(limit, usedNoCache) ==
    IF limit # Zero
    THEN RatMul(RatDiv(usedNoCache, limit), Float(100))
    ELSE Zero

\* Lines 280-303 with the test of line 281 as the argument computed: the
\* locals keep their zero values unless computed is true.
deriveFields(resp, computed) ==
    LET cpu == IF computed
               THEN calcCPUPercent(resp.CPUStats.PreTotalUsage,
                                   resp.CPUStats.PreSystemUsage, resp.CPUStats)
               ELSE Zero
        blk == IF computed THEN calcBlockIO(resp.BlkioStats)
               ELSE <<Zero, Zero>>
        usedNoCache == IF computed THEN calcMemUsageNoCache(resp.MemoryStats)
                       ELSE Zero
        memLimit == IF computed THEN Float(resp.MemoryStats.Limit) ELSE Zero
        memPercent == IF computed
                      THEN calcMemPercentNoCache(memLimit, usedNoCache)
                      ELSE Zero
        net == calcNetwork(resp.Networks)
    IN  [CPUPercentage |-> cpu, Memory |-> usedNoCache,
         MemoryPercentage |-> memPercent, MemoryLimit |-> memLimit,
         NetworkRx |-> net[1], NetworkTx |-> net[2],
         BlockRead |-> blk[1], BlockWrite |-> blk[2]]

\* getStatsFields without the test of line 281.
getStatsFieldsNoGate(resp) == deriveFields(resp, TRUE)

\* Lines 280-303: the numeric fields of the entry getStats returns for a
\* response whose body was read and decoded.
getStatsFields(resp) == deriveFields(resp, resp.OSType # "windows")

\* Line 207: s, err := e.getStats(resp), without an error.
GetStats ==
    /\ call.fn = "getStats"
    /\ ~call.done
    /\ call' = Return(getStatsFields(call.arg))
    /\ UNCHANGED <<dc, listVars, workerVars, crashed, watchVars, cpuVars,
                   handlerVars>>

NextStats == GetStats

SpecStats == InitStats /\ [][NextStats]_vars

\* ================================================================ claims
\* The containers of the listing.
Listed == { containers[i] : i \in 1 .. Len(containers) }

\* The positions of seq that hold an entry sent by worker c.
EntriesBy(seq, c) == { i \in DOMAIN seq : seq[i].by = c }

\* A worker that has panicked.
Panicked(c) == wpc[c] \in {"panic", "fatal"}

\* C1 (as claimed): after a successful listing of N containers List()
\* returns, whatever the per-container outcomes, and what it returns holds
\* exactly N entries, exactly one sent for each listed container.
C1_OneEntryPerContainer ==
    /\ ~crashed
    /\ (lpc = "returned" /\ listed = "ok") =>
          /\ Len(result) = Len(containers)
          /\ \A c \in Listed : Cardinality(EntriesBy(result, c)) = 1

\* C2 (as claimed): when the stats fetch or the derivation fails for a
\* container, its worker does not crash, List() returns a nil error, every
\* entry of the failing container is the all-zero placeholder, and every
\* entry of a container without a failure carries that container's own
\* values.
C2_PartialFailureTolerated ==
    \A c \in ContainerIDs :
        (outcome[c].stats = "err" \/ outcome[c].derive = "err") =>
            /\ ~Panicked(c)
            /\ ~crashed
            /\ lpc = "returned" =>
                  /\ retErr = "nil"
                  /\ \A i \in EntriesBy(result, c) : result[i].e = ZeroEntry
                  /\ \A d \in Listed :
                        (outcome[d].stats = "ok" /\ outcome[d].derive = "ok") =>
                            \A i \in EntriesBy(result, d) :
                                /\ result[i].e.id = d
                                /\ result[i].e.metrics = Metrics(d)

\* C3: when the listing call fails, List() has returned at once with an empty
\* sequence and that error: no worker and no collector was started, no stats
\* fetch and no inspection was issued, nothing was collected.
C3_ListingFailure ==
    listed = "err" =>
        /\ lpc = "returned"
        /\ result = <<>>
        /\ retErr = "listErr"
        /\ spawned = 0
        /\ cpc = "none"
        /\ stats = <<>> /\ ch = <<>>
        /\ \A c \in ContainerIDs :
              wpc[c] = "none" /\ statsCalls[c] = 0 /\ inspectCalls[c] = 0

C3_Witness == listed = "err" /\ lpc = "returned" /\ retErr = "listErr"

\* C4: List() is a barrier: once it is past wg.Wait() (and so when it has
\* returned) a worker was started for every listed container and every one
\* of them has finished: none is running or able to send.
C4_Barrier ==
    (listed = "ok" /\ lpc \in {"close", "recvdone", "returned"}) =>
        /\ spawned = Len(containers)
        /\ wg = 0
        /\ \A c \in Listed : wpc[c] \in {"done", "fatal"}

C4_Witness ==
    /\ lpc = "returned"
    /\ Len(containers) = MaxContainers
    /\ \A c \in Listed : wpc[c] = "done"

\* C5 (as claimed): after construction only Watch replaces e.dc: every step
\* that changes e.dc is the rebuild of Watch (line 235).
C5_OnlyWatchWrites ==
    [][dc' # dc => (kpc = "rebuild" /\ kpc' = "sleep")]_vars

\* C5 (amended): e.dc is replaced only by Watch (line 235) and by the
\* label-inspection step of a List() worker whose inspection call failed
\* (line 247); every other step of List() leaves it as it is.
C5_WatchAndGetLabelsWrite ==
    [][dc' # dc =>
          \/ kpc = "rebuild" /\ kpc' = "sleep"
          \/ \E c \in ContainerIDs :
                /\ wpc[c] = "reconnect" /\ wpc'[c] # "reconnect"
                /\ outcome[c].inspect = "err"]_vars

\* Watch has replaced the handle once and a worker has replaced it once.
C5_Witness ==
    /\ dc = 3
    /\ nErr = 1 /\ kpc = "sleep"
    /\ \E c \in ContainerIDs : outcome[c].inspect = "err" /\ Panicked(c)

\* C6 (as claimed): when the inspection of a container fails (its stats were
\* fetched and derived), its worker does not crash, goes on to send, and the
\* entry List() returns for it has an empty label mapping and the
\* container's own stats; List() returns a nil error.
C6_InspectFailureTolerated ==
    \A c \in ContainerIDs :
        (outcome[c].stats = "ok" /\ outcome[c].derive = "ok"
            /\ outcome[c].inspect = "err") =>
            /\ ~Panicked(c)
            /\ lpc = "returned" =>
                  /\ retErr = "nil"
                  /\ \E i \in EntriesBy(result, c) :
                        /\ result[i].e.id = c
                        /\ result[i].e.metrics = Metrics(c)
                        /\ result[i].e.hasLabels
                        /\ result[i].e.labels = {}

\* The operations of wlog.
WatchOps == [i \in DOMAIN wlog |-> wlog[i].op]

IsPrefix(a, b) == Len(a) <= Len(b) /\ \A i \in DOMAIN a : a[i] = b[i]

\* C7: after a stream-closed error (EOF, unexpected EOF) Watch builds a new
\* handle, then sleeps, then subscribes, on a handle built after the error;
\* after any other error it only subscribes, on the current e.dc; it builds
\* no handle unless the error it received was a stream-closed one.
C7_WatchRecovery ==
    LET want == IF nErr > 0 /\ StreamClosed(werr)
                THEN <<"build", "sleep", "subscribe">>
                ELSE <<"subscribe">>
    IN  /\ IsPrefix(WatchOps, want)
        /\ kpc = "select" => WatchOps = want /\ sub = wlog[Len(wlog)].h
        /\ \A i \in DOMAIN wlog :
              /\ wlog[i].op = "build" => wlog[i].h > dcAtErr
              /\ wlog[i].op = "subscribe" =>
                    /\ wlog[i].h >= dcAtErr
                    /\ (nErr > 0 /\ StreamClosed(werr)) => wlog[i].h >= wlog[1].h

C7_Witness ==
    /\ kpc = "select"
    /\ nErr = MaxStreamErrors
    /\ werr = "ErrUnexpectedEOF"
    /\ WatchOps = <<"build", "sleep", "subscribe">>
    /\ sub > dcAtErr

\* The positions of the loop of Watch.
WatchLoop == {"events", "select", "rebuild", "sleep", "resubscribe"}

\* C8: Watch never leaves its loop: it is always at a position of the loop,
\* away from the select it always has a step to take, every received error
\* is followed by exactly one subscription, and (until the process exits)
\* Watch is eventually subscribed and waiting again.
C8_WatchNeverTerminates ==
    /\ [](kpc \in WatchLoop)
    /\ [](kpc = "select" => nSub = nErr + 1)
    /\ []((kpc # "select" /\ ~crashed) => ENABLED WatchStep)
    /\ [](kpc # "select" => <>(kpc = "select" \/ crashed))

C8_Witness ==
    /\ kpc = "select"
    /\ nErr = MaxStreamErrors
    /\ nSub = MaxStreamErrors + 1
    /\ ~crashed

\* C9: with an empty listing List() returns, with an empty sequence and a
\* nil error, and the collector has ended.
C9_EmptyListing ==
    /\ []((listed = "ok" /\ containers = <<>> /\ lpc = "returned") =>
              (result = <<>> /\ retErr = "nil" /\ cpc = "exited"))
    /\ []((listed = "ok" /\ containers = <<>>) => <>(lpc = "returned"))

C9_Witness ==
    /\ listed = "ok" /\ containers = <<>>
    /\ lpc = "returned" /\ result = <<>> /\ retErr = "nil"
    /\ cpc = "exited"

\* C10: with cpuDelta and systemDelta the signed differences of the current
\* and previous counters, and onlineCPUs the reported count or, when it is
\* zero, the number of per-CPU entries, the CPU percentage is 0 when
\* cpuDelta <= 0 or systemDelta <= 0 and (cpuDelta/systemDelta)*onlineCPUs*100
\* otherwise.
C10_CPUPercent ==
    cpuDone =>
        LET cpuDelta == v.TotalUsage - v.PreTotalUsage
            systemDelta == v.SystemUsage - v.PreSystemUsage
            onlineCPUs == IF v.OnlineCPUs # 0 THEN v.OnlineCPUs
                          ELSE v.PercpuUsage
        IN  IF cpuDelta <= 0 \/ systemDelta <= 0
            THEN cpuPercent = Zero
            ELSE /\ cpuPercent.d > 0
                 /\ cpuPercent.n * systemDelta
                        = cpuDelta * onlineCPUs * 100 * cpuPercent.d

\* A snapshot with positive deltas whose online CPU count is zero: the
\* per-CPU entries are counted instead.
C10_Witness ==
    /\ cpuDone
    /\ v.TotalUsage - v.PreTotalUsage = 1
    /\ v.SystemUsage - v.PreSystemUsage = MaxCounter
    /\ v.OnlineCPUs = 0 /\ v.PercpuUsage = MaxCPUs
    /\ cpuPercent # Zero
    /\ cpuPercent.n * MaxCounter = 100 * MaxCPUs * cpuPercent.d

\* C11 (as claimed): for every memory snapshot the cache-excluded usage is
\* the arithmetic difference usage - cache, cache being 0 when the statistic
\* is absent.
C11_MemUsageIsDifference ==
    LET mem == call.arg
        memUsage == call.ret
    IN  (call.fn = "calcMemUsageNoCache" /\ call.done) =>
            memUsage = Float(mem.Usage - Lookup(mem.Stats, "cache"))

\* The names of the table KubernetesLabels.
CanonicalNames ==
    {"kubernetes_pod_namespace", "kubernetes_pod_name",
     "kubernetes_container_name"}

\* C13: the labels attached to an entry are exactly the projection of the
\* container's labels through the three-key table: a recognized key of the
\* input appears under its canonical name with the same value, nothing else
\* appears, and without a recognized key the mapping is empty.
C13_LabelProjection ==
    LET configLabels == call.arg
        kubeLabels == call.ret
    IN  (call.fn = "getLabels" /\ call.done) =>
            /\ \A val \in LabelValues :
                  /\ <<"io.kubernetes.pod.namespace", val>> \in configLabels
                        <=> <<"kubernetes_pod_namespace", val>> \in kubeLabels
                  /\ <<"io.kubernetes.pod.name", val>> \in configLabels
                        <=> <<"kubernetes_pod_name", val>> \in kubeLabels
                  /\ <<"io.kubernetes.container.name", val>> \in configLabels
                        <=> <<"kubernetes_container_name", val>> \in kubeLabels
            /\ \A p \in kubeLabels :
                  p[1] \in CanonicalNames /\ p[2] \in LabelValues
            /\ Cardinality(kubeLabels) =
                  Cardinality({ p \in configLabels : p[1] # "unrelated" })

\* The example of the specification: a pod name and an unrelated label.
C13_Witness ==
    LET configLabels == call.arg
        kubeLabels == call.ret
    IN  /\ call.fn = "getLabels" /\ call.done
        /\ configLabels = { <<"io.kubernetes.pod.name", "x">>,
                           <<"unrelated", "y">> }
        /\ kubeLabels = { <<"kubernetes_pod_name", "x">> }

\* The sum of Value over the entries whose operation code starts with one of
\* the letters.
RECURSIVE SumStartingWith(_, _)
SumStartingWith(entries, letters) ==
    IF entries = <<>>
    THEN 0
    ELSE (IF Len(Head(entries).Op) > 0 /\ Head(entries).Op[1] \in letters
          THEN Head(entries).Value
          ELSE 0) + SumStartingWith(Tail(entries), letters)

\* The entries whose operation code starts with r, R, w or W.
ReadsAndWrites(blkio) ==
    SelectSeq(blkio, LAMBDA b : Len(b.Op) > 0
                                  /\ b.Op[1] \in {"r", "R", "w", "W"})

\* C14: the read total is the sum of Value over exactly the entries whose
\* operation code starts with r or R, the write total the sum over exactly
\* those starting with w or W (sums of uint64 values, as the totals are), and
\* the entries with an empty code or another first letter contribute to
\* neither: the totals are those of the list without them.
C14_BlockIO ==
    LET blkio == call.arg
        blkRead == call.ret[1]
        blkWrite == call.ret[2]
    IN  (call.fn = "calcBlockIO" /\ call.done) =>
            /\ blkRead =
                  Float(SumStartingWith(blkio, {"r", "R"}) % UintModulus)
            /\ blkWrite =
                  Float(SumStartingWith(blkio, {"w", "W"}) % UintModulus)
            /\ <<blkRead, blkWrite>> = calcBlockIO(ReadsAndWrites(blkio))

\* A full list with a capitalised read and an entry that is skipped, or a
\* lower-case write and an entry with an empty code.
C14_Witness ==
    LET blkio == call.arg
        blkRead == call.ret[1]
        blkWrite == call.ret[2]
    IN  /\ call.fn = "calcBlockIO" /\ call.done
        /\ Len(blkio) = MaxBlkioEntries
        /\ \E i, j \in DOMAIN blkio :
              /\ blkio[i].Op = <<"R", "e", "a", "d">> /\ blkio[i].Value = 2
              /\ blkio[j].Op \in {<<>>, <<"T", "o", "t", "a", "l">>}
        /\ blkRead = Float(2)
        /\ blkWrite = Zero

\* The sum of one counter over the interfaces of a network mapping.
RECURSIVE SumOverInterfaces(_, _)
SumOverInterfaces(network, counter) ==
    IF network = {}
    THEN 0
    ELSE LET n == CHOOSE x \in network : TRUE
         IN  n[2][counter] + SumOverInterfaces(network \ {n}, counter)

\* C12: for a snapshot whose OS type is windows the CPU percentage, memory
\* usage, memory limit, memory percentage, block read and block write of the
\* entry are 0 whatever the counters are; for any other OS type they are the
\* results of the derivations; for every OS type network rx and tx are the
\* sums of RxBytes and TxBytes over the interfaces.
C12_WindowsGate ==
    LET response == call.arg
        entry == call.ret
    IN  (call.fn = "getStats" /\ call.done) =>
            /\ entry.NetworkRx =
                  Float(SumOverInterfaces(response.Networks, "RxBytes"))
            /\ entry.NetworkTx =
                  Float(SumOverInterfaces(response.Networks, "TxBytes"))
            /\ IF response.OSType = "windows"
               THEN /\ entry.CPUPercentage = Zero
                    /\ entry.Memory = Zero
                    /\ entry.MemoryLimit = Zero
                    /\ entry.MemoryPercentage = Zero
                    /\ entry.BlockRead = Zero
                    /\ entry.BlockWrite = Zero
               ELSE /\ entry.CPUPercentage =
                          calcCPUPercent(response.CPUStats.PreTotalUsage,
                                         response.CPUStats.PreSystemUsage,
                                         response.CPUStats)
                    /\ entry.Memory = calcMemUsageNoCache(response.MemoryStats)
                    /\ entry.MemoryLimit = Float(response.MemoryStats.Limit)
                    /\ entry.MemoryPercentage =
                          calcMemPercentNoCache(entry.MemoryLimit, entry.Memory)
                    /\ <<entry.BlockRead, entry.BlockWrite>> =
                          calcBlockIO(response.BlkioStats)

\* A windows snapshot whose counters are all non-zero, with two interfaces.
C12_Witness ==
    LET response == call.arg
        entry == call.ret
    IN  /\ call.fn = "getStats" /\ call.done
        /\ response.OSType = "windows"
        /\ response.CPUStats.TotalUsage = 1
        /\ response.MemoryStats.Usage = 2 /\ response.MemoryStats.Limit # 0
        /\ response.BlkioStats # <<>>
        /\ Cardinality(response.Networks) = 2
        /\ entry = [ZeroStatsFields EXCEPT !.NetworkRx = Float(3),
                                           !.NetworkTx = Float(4)]

\* C15: within one List() call ContainerStats is issued at most once for a
\* container, always with the stream argument false: not at all before the
\* worker's call and for a container that is not listed, exactly once from
\* the call on, whether it succeeded or failed, and so exactly once for
\* every listed container when List() returns.
C15_FetchOnce ==
    /\ \A c \in ContainerIDs :
          /\ statsCalls[c] = IF wpc[c] \in {"none", "fetch"} THEN 0 ELSE 1
          /\ streamArgs[c] = IF statsCalls[c] = 0 THEN {} ELSE {FALSE}
          /\ outcome[c].stats # "none" => statsCalls[c] = 1
          /\ c \notin Listed => statsCalls[c] = 0
    /\ (lpc = "returned" /\ listed = "ok") =>
          \A c \in Listed : statsCalls[c] = 1

\* One worker whose fetch failed and one whose fetch succeeded have both
\* ended, each after a single call.
C15_Witness ==
    \E c, d \in Listed :
        /\ outcome[c].stats = "err" /\ wpc[c] = "fatal" /\ statsCalls[c] = 1
        /\ outcome[d].stats = "ok" /\ wpc[d] = "done" /\ statsCalls[d] = 1

\* C16: the sequence List() returns is in the order in which the workers
\* sent their entries (the collector receives and appends them in that
\* order), whatever the order of the listing; when no worker has failed it
\* holds exactly one entry of every listed container, so it is a permutation
\* of the per-container entries.
C16_CompletionOrder ==
    /\ stats \o ch = sentLog
    /\ (lpc = "returned" /\ listed = "ok") =>
          /\ result = sentLog
          /\ (\A c \in Listed : wpc[c] = "done") =>
                /\ Len(result) = Len(containers)
                /\ \A c \in Listed : \E i \in DOMAIN result :
                      result[i].by = c /\ result[i].e.id = c

\* A returned sequence whose first two entries are those of the second and
\* of the first listed container.
C16_Witness ==
    /\ lpc = "returned"
    /\ Len(containers) >= 2 /\ Len(result) = Len(containers)
    /\ result[1].by = containers[2] /\ result[1].e.id = containers[2]
    /\ result[2].by = containers[1] /\ result[2].e.id = containers[1]

\* C17: when List() returns an error the handler makes the error response
\* (status 500 with the error message) and then also the success response
\* (status 200 with the stats) in the same request; when List() returns no
\* error it makes the success response only.
C17_HandlerFallsThrough ==
    LET failure == JSON(StatusInternalServerError, Response(<<>>, "listErr"))
        success == JSON(StatusOK, Response(result, ""))
    IN  /\ hpc = "list" => responses = <<>>
        /\ hpc = "json" =>
              responses = IF listed = "err" THEN <<failure>> ELSE <<>>
        /\ hpc = "done" =>
              responses = IF listed = "err" THEN <<failure, success>>
                          ELSE <<success>>

\* The handler has returned after a failed listing, with both responses.
C17_Witness ==
    /\ hpc = "done"
    /\ listed = "err"
    /\ Len(responses) = 2
    /\ responses[1].code = StatusInternalServerError
    /\ responses[2].code = StatusOK

\* The number of entries of seq sent by worker c.
CountBy(seq, c) == Cardinality(EntriesBy(seq, c))

\* C18: ch is closed only when no worker can send any more (so no send meets
\* a closed channel); stats changes only by the collector appending the
\* entry it received; List() returns stats only when the collector has
\* drained the closed channel and signalled done; what List() returns holds
\* exactly the entries the workers sent, and after the return nothing is
\* sent or appended.
C18_ChannelDiscipline ==
    /\ [](closed =>
            \A c \in ContainerIDs : wpc[c] \in {"none", "done", "fatal"})
    /\ [][stats' # stats =>
            /\ cpc = "range" /\ cpc' = "range"
            /\ ch # <<>>
            /\ stats' = Append(stats, Head(ch))
            /\ ch' = Tail(ch)]_vars
    /\ []((lpc = "returned" /\ listed = "ok") =>
            /\ cpc = "exited" /\ closed /\ ch = <<>>
            /\ result = stats
            /\ Len(result) = Len(sentLog)
            /\ \A c \in ContainerIDs : CountBy(result, c) = CountBy(sentLog, c)
            /\ \A i \in DOMAIN result :
                  \E j \in DOMAIN sentLog : result[i] = sentLog[j])
    /\ [][lpc = "returned" =>
            stats' = stats /\ sentLog' = sentLog /\ result' = result]_vars

\* List() has returned the entries of a full listing, all sent and received.
C18_Witness ==
    /\ lpc = "returned"
    /\ cpc = "exited" /\ closed
    /\ Len(sentLog) = MaxContainers
    /\ result = sentLog

\* C19 (as claimed): under fair scheduling, with every runtime call
\* returning, every started worker eventually completes, the collector
\* eventually signals done and List() eventually returns.
C19_ListTerminates ==
    /\ \A c \in ContainerIDs : [](wpc[c] = "fetch" => <>(wpc[c] = "done"))
    /\ [](cpc = "range" => <>(cpc = "exited"))
    /\ [](lpc # "returned" => <>(lpc = "returned"))

====
